---- MODULE Spec2Model ----
(***************************************************************************)
(* A model of the Obsidian tag tools: the shared helpers of tag_utils.py,  *)
(* the auto-tagger (obsidian_auto_tagger.py) and the Readwise tag sync     *)
(* (readwise_tag_sync.py).                                                 *)
(*                                                                         *)
(* Text is a sequence of one-character strings, so that the regular        *)
(* expressions, the comma splitting and the YAML rendering act on          *)
(* characters as the Python code does.                                     *)
(***************************************************************************)
EXTENDS Integers, Sequences, FiniteSets, TLC

VARIABLES
    tool,           \* "auto" | "sync" | "none": which entry point runs
    apply,          \* args.apply
    dry_run,        \* args.dry_run
    token,          \* value of the credential environment variable
    cfg_threshold,  \* raw similarity_threshold of the configuration
    raw_rules,      \* raw auto_tags entries of the configuration
    service,        \* the pages the remote service would answer with
    vault,          \* the note files on disk, in sorted path order
    vault0,         \* the note files as they were when the run started
    pc,             \* position of the run
    outcome,        \* "running" | "returned" | "raised"
    exit_code,      \* process exit status (-1 while running)
    error_logged,   \* logger.error was called
    idx,            \* index of the next file of the loop
    page,           \* index of the next page to request (0: no further url)
    requests,       \* number of page requests made
    fetched,        \* local list `tags` of fetch_readwise_tags
    readwise_tags,  \* result of fetch_readwise_tags once assigned
    proposals,      \* the run's list of proposals
    csv,            \* rows of tag_proposal.csv as written by this run
    csv_writes,     \* number of times this run wrote the report
    written,        \* indexes of the files this run wrote
    new_log,        \* per file: new tags (auto) computed by this run
    run,            \* number of the current run
    response,       \* what the last page request met ("none" before any)
    fn_in,          \* input of a helper applied on its own
    fn_out          \* result of a helper applied on its own

vars == <<tool, apply, dry_run, token, cfg_threshold, raw_rules, service,
          vault, vault0, pc, outcome, exit_code, error_logged, idx, page,
          requests, fetched, readwise_tags, proposals, csv, csv_writes,
          written, new_log, run, response, fn_in, fn_out>>

runvars == <<tool, apply, dry_run, token, cfg_threshold, raw_rules, service,
             vault, vault0, outcome, exit_code, error_logged, idx, page,
             requests, fetched, readwise_tags, proposals, csv, csv_writes,
             written, new_log, run, response>>

----------------------------------------------------------------------------
(* Characters and strings *)

NL == "\n"

Letters ==
    {"a","b","c","d","e","f","g","h","i","j","k","l","m","n","o","p","q",
     "r","s","t","u","v","w","x","y","z"}

Digits == {"0","1","2","3","4","5","6","7","8","9"}

\* \w of Python's re on str input, within the model's alphabet
IsWord(c) == c \in Letters \cup Digits \cup {"_"}

\* \s of Python's re and the characters str.strip() removes
IsSpace(c) == c \in {" ", NL, "\t"}

\* the character class [A-Za-z0-9_./-] of _TAG_PATTERN
IsTagChar(c) == IsWord(c) \/ c \in {".", "/", "-"}

\* code points, for the order sorted() puts strings in
Ord(c) ==
    CASE c = "\t" -> 9
      [] c = NL -> 10
      [] c = " " -> 32
      [] c = "#" -> 35
      [] c = "'" -> 39
      [] c = "," -> 44
      [] c = "-" -> 45
      [] c = "." -> 46
      [] c = "/" -> 47
      [] c \in Digits ->
            48 + (CHOOSE n \in 0..9 :
                    c = <<"0","1","2","3","4","5","6","7","8","9">>[n + 1])
      [] c = ":" -> 58
      [] c = "[" -> 91
      [] c = "]" -> 93
      [] c = "_" -> 95
      [] c \in Letters ->
            96 + (CHOOSE n \in 1..26 :
                    c = <<"a","b","c","d","e","f","g","h","i","j","k","l","m",
                          "n","o","p","q","r","s","t","u","v","w","x","y",
                          "z">>[n])
      [] OTHER -> 200

Min(S) == CHOOSE x \in S : \A y \in S : x <= y
Max(S) == CHOOSE x \in S : \A y \in S : x >= y

\* s < t in Python's string order
RECURSIVE StrLess(_, _)
StrLess(s, t) ==
    IF t = <<>> THEN FALSE
    ELSE IF s = <<>> THEN TRUE
    ELSE IF Ord(Head(s)) # Ord(Head(t)) THEN Ord(Head(s)) < Ord(Head(t))
    ELSE StrLess(Tail(s), Tail(t))

\* sorted(S) for a set of strings
RECURSIVE Sorted(_)
Sorted(S) ==
    IF S = {} THEN <<>>
    ELSE LET m == CHOOSE x \in S : \A y \in S \ {x} : StrLess(x, y)
         IN  <<m>> \o Sorted(S \ {m})

Range(s) == {s[i] : i \in DOMAIN s}

\* the text p occurs in s at index i
StartsWithAt(s, i, p) ==
    /\ i >= 1
    /\ i + Len(p) - 1 <= Len(s)
    /\ SubSeq(s, i, i + Len(p) - 1) = p

\* p occurs somewhere in s
Contains(s, p) == \E i \in 1..(Len(s) + 1) : StartsWithAt(s, i, p)

\* first index at or after i that holds no whitespace (Len(s) + 1 if none)
WsEnd(s, i) ==
    Min({k \in i..(Len(s) + 1) :
            /\ \A m \in i..(k - 1) : IsSpace(s[m])
            /\ (k = Len(s) + 1 \/ ~IsSpace(s[k]))})

\* str.strip()
Strip(s) ==
    LET a == WsEnd(s, 1)
    IN  IF a > Len(s) THEN <<>>
        ELSE LET b == Max({k \in a..Len(s) : ~IsSpace(s[k])})
             IN  SubSeq(s, a, b)

\* str.split(sep) for a one-character separator
RECURSIVE Split(_, _)
Split(s, sep) ==
    IF \A i \in DOMAIN s : s[i] # sep THEN <<s>>
    ELSE LET k == Min({i \in DOMAIN s : s[i] = sep})
         IN  <<SubSeq(s, 1, k - 1)>> \o Split(SubSeq(s, k + 1, Len(s)), sep)

\* sep.join(parts)
RECURSIVE Join(_, _)
Join(parts, sep) ==
    IF parts = <<>> THEN <<>>
    ELSE IF Len(parts) = 1 THEN parts[1]
    ELSE parts[1] \o sep \o Join(Tail(parts), sep)

----------------------------------------------------------------------------
(* The YAML reader and writer (ruamel.yaml, round-trip mode), for the      *)
(* block mappings a note's frontmatter holds: `key: scalar`, `key:`,       *)
(* `key: []`, `key:` followed by `- item` lines, comments, blank lines and *)
(* a leading document marker.  A frontmatter is a sequence of entries      *)
(* [key, kind, str, items], kind being "str", "int", "null" or "seq".      *)

Dashes == <<"-", "-", "-">>
Quote == "'"

AllDigits(s) == s # <<>> /\ \A i \in DOMAIN s : s[i] \in Digits

\* index of the first character of s that is no word character
WordEnd(s) ==
    Min({k \in 1..(Len(s) + 1) :
            /\ \A m \in 1..(k - 1) : IsWord(s[m])
            /\ (k = Len(s) + 1 \/ ~IsWord(s[k]))})

IsQuoted(v) == Len(v) >= 2 /\ v[1] = Quote /\ v[Len(v)] = Quote

\* the representer's choice of style: a string that would not read back as
\* the same string when written plain is written in single quotes
NeedsQuote(s) ==
    \/ s = <<>>
    \/ IsSpace(s[1])
    \/ IsSpace(s[Len(s)])
    \/ AllDigits(s)
    \/ s[1] \in {"#", "[", "]", Quote}
    \/ (s[1] = "-" /\ (Len(s) = 1 \/ s[2] = " "))
    \/ Contains(s, <<":", " ">>)
    \/ s[Len(s)] = ":"

DumpScalar(s) == IF NeedsQuote(s) THEN <<Quote>> \o s \o <<Quote>> ELSE s

\* a scalar as the reader resolves it: [kind, str]
LoadScalar(v) ==
    IF v = <<>> THEN [kind |-> "null", str |-> <<>>]
    ELSE IF IsQuoted(v) THEN [kind |-> "str", str |-> SubSeq(v, 2, Len(v) - 1)]
    ELSE IF v = <<"[", "]">> THEN [kind |-> "seq", str |-> <<>>]
    ELSE IF AllDigits(v) THEN [kind |-> "int", str |-> v]
    ELSE IF v[1] \in {"[", "]", Quote} \/ Contains(v, <<":", " ">>)
         THEN [kind |-> "bad", str |-> v]
    ELSE [kind |-> "str", str |-> v]

\* one line of a block mapping, classified
LineKind(l) ==
    LET s == Strip(l)
    IN  IF s = <<>> THEN [kind |-> "blank"]
        ELSE IF s[1] = "#" THEN [kind |-> "comment"]
        ELSE IF s = Dashes THEN [kind |-> "docstart"]
        ELSE IF s = <<"-">> \/ StartsWithAt(s, 1, <<"-", " ">>)
             THEN [kind |-> "item",
                   val |-> LoadScalar(Strip(SubSeq(s, 2, Len(s))))]
        ELSE IF s = <<"[", "]">> THEN [kind |-> "emptydoc"]
        ELSE IF IsWord(l[1])
             THEN LET k == WordEnd(l)
                  IN  IF /\ k <= Len(l)
                         /\ l[k] = ":"
                         /\ (k = Len(l) \/ l[k + 1] = " ")
                      THEN [kind |-> "entry",
                            key |-> SubSeq(l, 1, k - 1),
                            val |-> LoadScalar(Strip(SubSeq(l, k + 1, Len(l))))]
                      ELSE [kind |-> "scalar"]
        ELSE IF s[1] = "[" THEN [kind |-> "bad"]
        ELSE [kind |-> "scalar"]

YamlError == [status |-> "malformed", map |-> <<>>]
YamlNonMap == [status |-> "nonmap", map |-> <<>>]

\* the lines of a document read in order; acc is the mapping so far and
\* seen says whether a content line was read
RECURSIVE LoadLines(_, _, _)
LoadLines(lines, acc, seen) ==
    IF lines = <<>> THEN [status |-> "ok", map |-> acc]
    ELSE
    LET c == LineKind(Head(lines))
        rest == Tail(lines)
        n == Len(acc)
    IN  CASE c.kind \in {"blank", "comment"} -> LoadLines(rest, acc, seen)
          [] c.kind = "docstart" ->
                IF seen THEN YamlError ELSE LoadLines(rest, acc, seen)
          [] c.kind = "emptydoc" ->
                IF seen THEN YamlError ELSE LoadLines(rest, acc, TRUE)
          [] c.kind = "bad" -> YamlError
          [] c.kind = "scalar" -> IF seen THEN YamlError ELSE YamlNonMap
          [] c.kind = "item" ->
                IF c.val.kind \notin {"str", "int", "null"} THEN YamlError
                ELSE IF n = 0 THEN (IF seen THEN YamlError ELSE YamlNonMap)
                ELSE IF acc[n].kind \notin {"null", "seq"}
                        \/ (acc[n].kind = "seq" /\ acc[n].flow)
                     THEN YamlError
                ELSE LoadLines(rest,
                        [acc EXCEPT ![n] =
                            [@ EXCEPT !.kind = "seq",
                                      !.items = Append(@, c.val.str)]],
                        TRUE)
          [] c.kind = "entry" ->
                IF c.val.kind = "bad" THEN YamlError
                ELSE IF \E i \in 1..n : acc[i].key = c.key THEN YamlError
                ELSE IF seen /\ n = 0 THEN YamlError
                ELSE LoadLines(rest,
                        Append(acc, [key |-> c.key, kind |-> c.val.kind,
                                     str |-> c.val.str, items |-> <<>>,
                                     flow |-> c.val.kind = "seq"]),
                        TRUE)

\* _yaml.load(text): [status, map]; "malformed" is a YAMLError raised by the
\* reader, "nonmap" a document that is no mapping (a scalar or a sequence)
YamlLoad(text) == LoadLines(Split(text, NL), <<>>, FALSE)

\* the entries without the reader's bookkeeping
Plain(fm) ==
    [i \in DOMAIN fm |->
        [key |-> fm[i].key, kind |-> fm[i].kind, str |-> fm[i].str,
         items |-> fm[i].items]]

RECURSIVE DumpItems(_)
DumpItems(items) ==
    IF items = <<>> THEN <<>>
    ELSE <<NL, " ", " ", "-", " ">> \o DumpScalar(Head(items))
         \o DumpItems(Tail(items))

DumpEntry(e) ==
    CASE e.kind = "str" -> e.key \o <<":", " ">> \o DumpScalar(e.str)
      [] e.kind = "int" -> e.key \o <<":", " ">> \o e.str
      [] e.kind = "null" -> e.key \o <<":">>
      [] e.kind = "seq" ->
            IF e.items = <<>> THEN e.key \o <<":", " ", "[", "]">>
            ELSE e.key \o <<":">> \o DumpItems(e.items)

\* _yaml.dump(frontmatter, buffer): one entry per line, each line ended
RECURSIVE YamlDump(_)
YamlDump(fm) ==
    IF fm = <<>> THEN <<>>
    ELSE DumpEntry(Head(fm)) \o <<NL>> \o YamlDump(Tail(fm))

----------------------------------------------------------------------------
(* tag_utils.py: frontmatter parsing and composing *)

\* the ends of `^---\s*\n`: the indexes that follow a newline of the
\* whitespace that follows the opening dashes
OpenEnds(s) == {e \in 5..WsEnd(s, 4) : s[e - 1] = NL}

\* where `\n---` can be matched at or after e
CloseAt(s, e) == {j \in e..Len(s) : StartsWithAt(s, j, <<NL>> \o Dashes)}

\* _FRONTMATTER_PATTERN.match(content): [found, text, rest] with text the
\* group (.*?) and rest the content after the match.  \s* is greedy, so the
\* latest end of the opening that lets the rest match is taken; (.*?) is
\* lazy, so the first `\n---` after it closes the block; the closing \s*
\* takes all the whitespace that follows.
FrontmatterMatch(s) ==
    LET ends == IF StartsWithAt(s, 1, Dashes)
                THEN {e \in OpenEnds(s) : CloseAt(s, e) # {}}
                ELSE {}
    IN  IF ends = {} THEN [found |-> FALSE, text |-> <<>>, rest |-> s]
        ELSE LET e == Max(ends)
                 j == Min(CloseAt(s, e))
                 r == WsEnd(s, j + 4)
             IN  [found |-> TRUE,
                  text |-> SubSeq(s, e, j - 1),
                  rest |-> SubSeq(s, r, Len(s))]

\* parse_frontmatter(content): [raised, fm, body, found].  A document that
\* is falsy (nothing, or an empty sequence) gives an empty mapping; a
\* document that is no mapping is handed to CommentedMap(), which raises.
parse_frontmatter(content) ==
    LET m == FrontmatterMatch(content)
    IN  IF ~m.found
        THEN [raised |-> FALSE, fm |-> <<>>, body |-> content, found |-> FALSE]
        ELSE LET y == YamlLoad(m.text)
             IN  IF y.status = "ok"
                 THEN [raised |-> FALSE, fm |-> Plain(y.map), body |-> m.rest,
                       found |-> TRUE]
                 ELSE [raised |-> TRUE, fm |-> <<>>, body |-> <<>>,
                       found |-> TRUE]

\* compose_markdown(frontmatter, body)
compose_markdown(fm, body) ==
    LET header == IF fm # <<>>
                  THEN Dashes \o <<NL>> \o Strip(YamlDump(fm)) \o <<NL>>
                       \o Dashes \o <<NL>>
                  ELSE <<>>
        body_text == IF header # <<>> /\ body # <<>> /\ body[1] # NL
                     THEN <<NL>> \o body
                     ELSE body
    IN  header \o body_text

\* ensure_frontmatter(frontmatter)
ensure_frontmatter(fm) == IF fm # <<>> THEN fm ELSE <<>>

HasKey(fm, k) == \E i \in DOMAIN fm : fm[i].key = k
KeyIndex(fm, k) == Min({i \in DOMAIN fm : fm[i].key = k})
TagsKey == <<"t", "a", "g", "s">>

\* the parts of a comma-separated string: stripped, the empty ones dropped
RECURSIVE StripParts(_)
StripParts(parts) ==
    IF parts = <<>> THEN <<>>
    ELSE (IF Strip(Head(parts)) # <<>> THEN <<Strip(Head(parts))>> ELSE <<>>)
         \o StripParts(Tail(parts))

\* get_frontmatter_tags(frontmatter)
get_frontmatter_tags(fm) ==
    IF ~HasKey(fm, TagsKey) THEN <<>>
    ELSE LET e == fm[KeyIndex(fm, TagsKey)]
         IN  CASE e.kind = "null" -> <<>>
               [] e.kind = "str" -> StripParts(Split(e.str, ","))
               [] e.kind = "seq" -> e.items
               [] OTHER -> <<>>

\* set_frontmatter_tags(frontmatter, tags): the frontmatter afterwards
set_frontmatter_tags(fm, tags) ==
    LET new == IF HasKey(fm, TagsKey) /\ fm[KeyIndex(fm, TagsKey)].kind = "str"
               THEN [key |-> TagsKey, kind |-> "str",
                     str |-> Join(tags, <<",", " ">>), items |-> <<>>]
               ELSE [key |-> TagsKey, kind |-> "seq", str |-> <<>>,
                     items |-> tags]
    IN  IF HasKey(fm, TagsKey)
        THEN [fm EXCEPT ![KeyIndex(fm, TagsKey)] = new]
        ELSE Append(fm, new)

\* find_tags_in_text(text): the names _TAG_PATTERN finds.  A match starts
\* at a # that follows neither a word character nor a slash and takes the
\* longest run of tag characters after it; # is no tag character, so no
\* match starts inside another.
TagStartAt(text, i) ==
    /\ i < Len(text)
    /\ text[i] = "#"
    /\ (i = 1 \/ ~(IsWord(text[i - 1]) \/ text[i - 1] = "/"))
    /\ IsTagChar(text[i + 1])

\* index after the run of tag characters that starts at i
TagRunEnd(text, i) ==
    Min({k \in i..(Len(text) + 1) :
            /\ \A m \in i..(k - 1) : IsTagChar(text[m])
            /\ (k = Len(text) + 1 \/ ~IsTagChar(text[k]))})

TagAt(text, i) == SubSeq(text, i + 1, TagRunEnd(text, i + 1) - 1)

find_tags_in_text(text) ==
    {TagAt(text, i) : i \in {k \in DOMAIN text : TagStartAt(text, k)}}

\* the pattern (?<![\w/])#old(?![\w/]) of replace_tag_in_text matches at i
ReplaceMatchAt(text, i, old) ==
    /\ i <= Len(text)
    /\ text[i] = "#"
    /\ (i = 1 \/ ~(IsWord(text[i - 1]) \/ text[i - 1] = "/"))
    /\ StartsWithAt(text, i + 1, old)
    /\ LET k == i + 1 + Len(old)
       IN  k > Len(text) \/ ~(IsWord(text[k]) \/ text[k] = "/")

\* pattern.sub("#" + new, text) from index i on: matches are replaced left
\* to right and do not overlap
RECURSIVE SubFrom(_, _, _, _)
SubFrom(text, i, old, new) ==
    IF i > Len(text) THEN <<>>
    ELSE IF ReplaceMatchAt(text, i, old)
         THEN <<"#">> \o new \o SubFrom(text, i + 1 + Len(old), old, new)
    ELSE <<text[i]>> \o SubFrom(text, i + 1, old, new)

\* replace_tag_in_text(text, old, new)
replace_tag_in_text(text, old, new) ==
    IF old = new THEN text ELSE SubFrom(text, 1, old, new)

----------------------------------------------------------------------------
(* tag_utils.py: credential and threshold *)

DefaultThreshold == 80

\* get_env_token(config): the value of the variable, [set, value]
get_env_token(env) == env

\* a variant that lets an unset variable through
TokenAbsentOnlyWhenEmpty(tok) == tok.set /\ tok.value = <<>>

\* `not token` in main: None and the empty string are both absent
TokenAbsent(tok) == ~tok.set \/ tok.value = <<>>

\* similarity_threshold(config): the raw value is [kind, v] with kind
\* "absent", "int" or "bad" (a value int() refuses)
similarity_threshold(raw) ==
    LET value == IF raw.kind = "int" THEN raw.v ELSE DefaultThreshold
        low == IF value < 100 THEN value ELSE 100
    IN  IF low > 0 THEN low ELSE 0

----------------------------------------------------------------------------
(* obsidian_auto_tagger.py *)

(* A rule entry of auto_tags is [shape, anchored, opt, lit, prefix, key].   *)
(* shape "rule" is a mapping whose pattern and tag_format are strings and   *)
(* whose pattern compiles; the pattern is  ^?(?P<n>opt)?lit  (the group    *)
(* only when opt is not empty, ^ only when anchored) and the template is    *)
(* prefix{key}, or prefix alone when key is "none".                         *)

\* load_rules(config)
load_rules(raw) ==
    IF ~raw.is_list THEN <<>>
    ELSE LET Valid(e) == e.shape = "rule"
         IN  SelectSeq(raw.entries, Valid)

\* the match of the rule's pattern at index i, if any: [found, len, has_n]
RuleMatchAt(body, i, rule) ==
    IF rule.anchored /\ i # 1 THEN [found |-> FALSE, len |-> 0, has_n |-> FALSE]
    ELSE IF rule.opt # <<>> /\ StartsWithAt(body, i, rule.opt \o rule.lit)
         THEN [found |-> TRUE, len |-> Len(rule.opt) + Len(rule.lit),
               has_n |-> TRUE]
    ELSE IF StartsWithAt(body, i, rule.lit)
         THEN [found |-> TRUE, len |-> Len(rule.lit), has_n |-> FALSE]
    ELSE [found |-> FALSE, len |-> 0, has_n |-> FALSE]

\* rule.pattern.finditer(body) from index i on: the matches in order, each
\* [text, has_n]; a match is searched after the end of the one before
RECURSIVE FindIter(_, _, _)
FindIter(body, i, rule) ==
    IF i > Len(body) THEN <<>>
    ELSE LET m == RuleMatchAt(body, i, rule)
         IN  IF m.found /\ m.len > 0
             THEN <<[text |-> SubSeq(body, i, i + m.len - 1),
                     has_n |-> m.has_n]>>
                  \o FindIter(body, i + m.len, rule)
             ELSE FindIter(body, i + 1, rule)

\* render_tag(rule, match): [ok, tag]; ok is FALSE for the None that a
\* template naming a group the match does not supply gives (KeyError)
render_tag(rule, m) ==
    CASE rule.key = "none" -> [ok |-> TRUE, tag |-> rule.prefix]
      [] rule.key = "match" -> [ok |-> TRUE, tag |-> rule.prefix \o m.text]
      [] rule.key = "n" /\ m.has_n ->
            [ok |-> TRUE, tag |-> rule.prefix \o rule.opt]
      [] OTHER -> [ok |-> FALSE, tag |-> <<>>]

\* collect_tags(body, rules)
collect_tags(body, rules) ==
    LET Tags(rule) ==
            LET ms == FindIter(body, 1, rule)
            IN  {render_tag(rule, ms[k]).tag :
                    k \in {j \in DOMAIN ms :
                            /\ render_tag(rule, ms[j]).ok
                            /\ render_tag(rule, ms[j]).tag # <<>>}}
    IN  UNION {Tags(rules[r]) : r \in DOMAIN rules}

\* apply_new_tags(existing, additions)
RECURSIVE apply_new_tags(_, _)
apply_new_tags(existing, additions) ==
    IF additions = <<>> THEN existing
    ELSE IF Head(additions) \in Range(existing)
         THEN apply_new_tags(existing, Tail(additions))
    ELSE apply_new_tags(Append(existing, Head(additions)), Tail(additions))

\* lines 124-128 of main for one file content: [raised, fm, body, existing,
\* new_tags]
AutoScan(content, rules) ==
    LET p == parse_frontmatter(content)
        fm == ensure_frontmatter(p.fm)
        existing == get_frontmatter_tags(fm)
        additions == Sorted(collect_tags(p.body, rules))
        IsNew(t) == t \notin Range(existing)
    IN  IF p.raised
        THEN [raised |-> TRUE, fm |-> <<>>, body |-> <<>>, existing |-> <<>>,
              new_tags |-> <<>>]
        ELSE [raised |-> FALSE, fm |-> fm, body |-> p.body,
              existing |-> existing, new_tags |-> SelectSeq(additions, IsNew)]

\* lines 134-136 of main: the content written for a scanned file
AutoRewrite(sc) ==
    compose_markdown(
        set_frontmatter_tags(sc.fm, apply_new_tags(sc.existing, sc.new_tags)),
        sc.body)

----------------------------------------------------------------------------
(* readwise_tag_sync.py *)

\* length of a longest common subsequence
RECURSIVE LCS(_, _)
LCS(a, b) ==
    IF a = <<>> \/ b = <<>> THEN 0
    ELSE IF Head(a) = Head(b) THEN 1 + LCS(Tail(a), Tail(b))
    ELSE LET x == LCS(Tail(a), b)
             y == LCS(a, Tail(b))
         IN  IF x >= y THEN x ELSE y

\* fuzz.ratio(a, b) as the fraction num/den: the normalized Indel
\* similarity 100 * 2 * LCS / (len(a) + len(b)), 100 for two empty strings
Ratio(a, b) ==
    IF Len(a) + Len(b) = 0 THEN [num |-> 100, den |-> 1]
    ELSE [num |-> 200 * LCS(a, b), den |-> Len(a) + Len(b)]

RatioLess(r, q) == r.num * q.den < q.num * r.den

\* a variant that also rejects a score equal to the threshold
BelowOrAtThreshold(r, threshold) == r.num <= threshold * r.den

\* score < threshold
BelowThreshold(r, threshold) == r.num < threshold * r.den

\* process.extractOne(tag, candidates, scorer=fuzz.ratio): the first
\* candidate, in list order, that no other candidate outscores
best_match(tag, candidates) ==
    IF candidates = <<>> THEN [found |-> FALSE, match |-> <<>>,
                               score |-> [num |-> 0, den |-> 1]]
    ELSE LET k == Min({i \in DOMAIN candidates :
                        \A j \in DOMAIN candidates :
                            ~RatioLess(Ratio(tag, candidates[i]),
                                       Ratio(tag, candidates[j]))})
         IN  [found |-> TRUE, match |-> candidates[k],
              score |-> Ratio(tag, candidates[k])]

\* one loop of build_proposals over the tags of a location: [props, updates,
\* seen] extended
RECURSIVE ProposeLoop(_, _, _, _, _, _)
ProposeLoop(path, location, tags, readwise, threshold, acc) ==
    IF tags = <<>> THEN acc
    ELSE LET tag == Head(tags)
             s == best_match(tag, readwise)
         IN  IF tag \in acc.seen
             THEN ProposeLoop(path, location, Tail(tags), readwise, threshold,
                              acc)
             ELSE IF ~s.found \/ s.match = tag
                     \/ BelowThreshold(s.score, threshold)
             THEN ProposeLoop(path, location, Tail(tags), readwise, threshold,
                              [acc EXCEPT !.seen = @ \cup {tag}])
             ELSE ProposeLoop(path, location, Tail(tags), readwise, threshold,
                    [props |-> Append(acc.props,
                                [path |-> path, location |-> location,
                                 original |-> tag, suggested |-> s.match,
                                 score |-> s.score]),
                     updates |-> Append(acc.updates, <<tag, s.match>>),
                     seen |-> acc.seen \cup {tag}])

NoProposals == [props |-> <<>>, updates |-> <<>>, seen |-> {}]

\* build_proposals(path, frontmatter_tags, body_tags, readwise_tags,
\* threshold): [proposals, frontmatter_updates, body_updates]; an update
\* mapping is the sequence of its (original, replacement) pairs in
\* insertion order
build_proposals(path, frontmatter_tags, body_tags, readwise, threshold) ==
    LET f == ProposeLoop(path, "frontmatter", frontmatter_tags, readwise,
                         threshold, NoProposals)
        b == ProposeLoop(path, "body", body_tags, readwise, threshold,
                         NoProposals)
    IN  [proposals |-> f.props \o b.props,
         frontmatter_updates |-> f.updates,
         body_updates |-> b.updates]

\* frontmatter_updates.get(tag, tag)
Lookup(updates, tag) ==
    IF \E i \in DOMAIN updates : updates[i][1] = tag
    THEN updates[Min({i \in DOMAIN updates : updates[i][1] = tag})][2]
    ELSE tag

\* the order-preserving removal of duplicates of apply_updates
RECURSIVE Dedupe(_, _)
Dedupe(tags, seen) ==
    IF tags = <<>> THEN <<>>
    ELSE IF Head(tags) \in seen THEN Dedupe(Tail(tags), seen)
    ELSE <<Head(tags)>> \o Dedupe(Tail(tags), seen \cup {Head(tags)})

\* the body after the replacements of body_updates, one after the other
RECURSIVE ReplaceAll(_, _)
ReplaceAll(body, updates) ==
    IF updates = <<>> THEN body
    ELSE ReplaceAll(replace_tag_in_text(body, Head(updates)[1],
                                        Head(updates)[2]),
                    Tail(updates))

\* apply_updates(path, content_body, frontmatter_tags, frontmatter_updates,
\* body_updates): [tags, body]
apply_updates(body, frontmatter_tags, frontmatter_updates, body_updates) ==
    LET updated == [i \in DOMAIN frontmatter_tags |->
                        Lookup(frontmatter_updates, frontmatter_tags[i])]
    IN  [tags |-> Dedupe(updated, {}),
         body |-> ReplaceAll(body, body_updates)]

\* f"{score:.2f}": the score in hundredths, rounded to the nearest
ScoreText(r) == (2 * 100 * r.num + r.den) \div (2 * r.den)

\* the row write_proposals writes for a proposal
CsvRow(p) ==
    [file |-> p.path, location |-> p.location, original_tag |-> p.original,
     suggested_tag |-> p.suggested, score |-> ScoreText(p.score)]

\* lines 214-226 of main for one file content: [raised, fm, body,
\* frontmatter_tags, built]
SyncScan(path, content, readwise, threshold) ==
    LET p == parse_frontmatter(content)
        fm == ensure_frontmatter(p.fm)
        frontmatter_tags == get_frontmatter_tags(fm)
        body_tags == Sorted(find_tags_in_text(p.body))
    IN  IF p.raised
        THEN [raised |-> TRUE, fm |-> <<>>, body |-> <<>>,
              frontmatter_tags |-> <<>>,
              built |-> build_proposals(path, <<>>, <<>>, <<>>, threshold)]
        ELSE [raised |-> FALSE, fm |-> fm, body |-> p.body,
              frontmatter_tags |-> frontmatter_tags,
              built |-> build_proposals(path, frontmatter_tags, body_tags,
                                        readwise, threshold)]

\* lines 232-240 of main: the content written for a scanned file
SyncRewrite(sc) ==
    LET u == apply_updates(sc.body, sc.frontmatter_tags,
                           sc.built.frontmatter_updates,
                           sc.built.body_updates)
    IN  compose_markdown(set_frontmatter_tags(sc.fm, u.tags), u.body)

\* the names a page of the service's answer adds to `tags`
RECURSIVE PageNames(_)
PageNames(items) ==
    IF items = <<>> THEN <<>>
    ELSE (IF Head(items).named THEN <<Head(items).name>> ELSE <<>>)
         \o PageNames(Tail(items))

----------------------------------------------------------------------------
(* Inputs of the runs *)

NFiles == 2
MaxRuns == 2

Files == 1..NFiles

Lines(ls) == Join(ls, <<NL>>)

TagsX == <<"t", "a", "g", "s", ":", " ", "x">>
TagsColon == <<"t", "a", "g", "s", ":">>
ItemX == <<" ", " ", "-", " ", "x">>

\* notes the auto-tagger is run on
AutoStringTags == Lines(<<Dashes, TagsX, Dashes, <<"b", " ", "p", ",", "q">>>>)
AutoSeqTags ==
    Lines(<<Dashes, TagsColon, ItemX, Dashes,
            <<"b", " ", "p", ",", "q", " ", "x", "p">>>>)
AutoNoFrontmatter == <<NL, "a", "b">>
AutoBadYaml == Lines(<<Dashes, <<"[">>, Dashes, <<"b">>>>)
AutoScalarYaml == Lines(<<Dashes, <<"x">>, Dashes, <<"b">>>>)
AutoIntTags ==
    Lines(<<Dashes, <<"t", "a", "g", "s", ":", " ", "1">>, Dashes,
            <<"x", "p">>>>)
AutoPlain == <<"z", "z">>

AutoContents ==
    {AutoStringTags, AutoSeqTags, AutoNoFrontmatter, AutoBadYaml,
     AutoScalarYaml, AutoIntTags, AutoPlain}

Rule(anchored, opt, lit, prefix, key) ==
    [shape |-> "rule", anchored |-> anchored, opt |-> opt, lit |-> lit,
     prefix |-> prefix, key |-> key]

\* an entry load_rules drops: no mapping, a pattern or template that is no
\* string, or a pattern that does not compile
Dropped(shape) ==
    [shape |-> shape, anchored |-> FALSE, opt |-> <<>>, lit |-> <<>>,
     prefix |-> <<>>, key |-> "none"]

RuleConfigs ==
    { [is_list |-> FALSE, entries |-> <<>>],
      [is_list |-> TRUE,
       entries |-> <<Dropped("badregex"),
                     Rule(FALSE, <<>>, <<"p", ",", "q">>, <<>>, "match")>>],
      [is_list |-> TRUE,
       entries |-> <<Rule(TRUE, <<>>, <<"a">>, <<"t", "2">>, "none"),
                     Dropped("notdict"),
                     Rule(FALSE, <<>>, <<"b">>, <<"t", "1">>, "none")>>],
      [is_list |-> TRUE,
       entries |-> <<Rule(FALSE, <<"x">>, <<"p">>, <<"t", "/">>, "n"),
                     Rule(FALSE, <<>>, <<"b">>, <<>>, "zz"),
                     Dropped("nostring")>>] }

\* notes the tag sync is run on
Fod == <<"f", "o", "d">>
Foo == <<"f", "o", "o">>
Food == <<"f", "o", "o", "d">>
Bar == <<"b", "a", "r">>

SyncStringTags ==
    Lines(<<Dashes, <<"t", "a", "g", "s", ":", " ">> \o Fod \o <<",", " ">>
                    \o Fod,
            Dashes,
            <<"#">> \o Fod \o <<" ", "#">> \o Fod \o <<"-", "x">>>>)
SyncSeqTags ==
    Lines(<<Dashes, TagsColon, <<" ", " ", "-", " ">> \o Foo, Dashes,
            <<"b">>>>)
SyncNoFrontmatter == <<"#", "f", "o", " ", "x">>
SyncBadYaml == Lines(<<Dashes, <<"[">>, Dashes, <<"#">> \o Fod>>)
SyncPlain == <<"z", "z">>

SyncContents ==
    {SyncStringTags, SyncSeqTags, SyncNoFrontmatter, SyncBadYaml, SyncPlain}

Named(n) == [named |-> TRUE, name |-> n]
Unnamed == [named |-> FALSE, name |-> <<>>]

\* the pages of the service's answer: each the items of its "results"
Services ==
    { << <<Named(Food), Unnamed>> >>,
      << <<Named(Foo)>>, <<Named(Food), Named(Bar), Named(Foo)>> >>,
      << <<>> >> }

Tokens ==
    { [set |-> FALSE, value |-> <<>>],
      [set |-> TRUE, value |-> <<>>],
      [set |-> TRUE, value |-> <<"k">>] }

Thresholds == { [kind |-> "absent", v |-> 0], [kind |-> "int", v |-> 50] }

NoRules == [is_list |-> FALSE, entries |-> <<>>]
NoToken == [set |-> FALSE, value |-> <<>>]
NoThreshold == [kind |-> "absent", v |-> 0]

----------------------------------------------------------------------------
(* The runs of the two tools *)

\* apply_changes = args.apply and not args.dry_run
apply_changes == apply /\ ~dry_run

\* the state main starts in
Fresh ==
    /\ pc = "start"
    /\ outcome = "running"
    /\ exit_code = -1
    /\ error_logged = FALSE
    /\ idx = 1
    /\ page = 0
    /\ requests = 0
    /\ response = "none"
    /\ fetched = <<>>
    /\ readwise_tags = <<>>
    /\ proposals = <<>>
    /\ csv = <<>>
    /\ csv_writes = 0
    /\ written = {}
    /\ new_log = [i \in Files |-> <<>>]

InitAuto ==
    /\ tool = "auto"
    /\ raw_rules \in RuleConfigs
    /\ vault \in [Files -> AutoContents]
    /\ token = NoToken
    /\ cfg_threshold = NoThreshold
    /\ service = <<>>

InitSync ==
    /\ tool = "sync"
    /\ token \in Tokens
    /\ cfg_threshold \in Thresholds
    /\ service \in Services
    /\ vault \in [Files -> SyncContents]
    /\ raw_rules = NoRules

Init ==
    /\ apply \in BOOLEAN
    /\ dry_run \in BOOLEAN
    /\ (InitAuto \/ InitSync)
    /\ vault0 = vault
    /\ run = 1
    /\ Fresh
    /\ fn_in = <<>>
    /\ fn_out = <<>>

\* main returns code
Return(code) ==
    /\ outcome' = "returned"
    /\ exit_code' = code
    /\ pc' = "done"

\* an exception leaves main: the interpreter prints the traceback and exits
\* with status 1
Raise ==
    /\ outcome' = "raised"
    /\ exit_code' = 1
    /\ pc' = "done"

config == <<tool, apply, dry_run, token, cfg_threshold, raw_rules, service,
            run, fn_in, fn_out>>
fetchvars == <<page, requests, response, fetched, readwise_tags>>
syncvars == <<proposals, csv, csv_writes>>

\* obsidian_auto_tagger.main, lines 112-120
AutoLoadRules ==
    /\ tool = "auto"
    /\ pc = "start"
    /\ IF load_rules(raw_rules) = <<>>
       THEN Return(0)
       ELSE pc' = "files" /\ UNCHANGED <<outcome, exit_code>>
    /\ UNCHANGED <<config, fetchvars, syncvars, vault, vault0, error_logged,
                   idx, written, new_log>>

\* obsidian_auto_tagger.main, lines 122-136: one pass of the loop
AutoFile ==
    /\ tool = "auto"
    /\ pc = "files"
    /\ idx \in Files
    /\ \E sc \in {AutoScan(vault[idx], load_rules(raw_rules))} :
           IF sc.raised
           THEN /\ Raise
                /\ UNCHANGED <<vault, written, new_log, idx>>
           ELSE /\ idx' = idx + 1
                /\ new_log' = [new_log EXCEPT ![idx] = sc.new_tags]
                /\ IF sc.new_tags # <<>> /\ apply_changes
                   THEN /\ vault' = [vault EXCEPT ![idx] = AutoRewrite(sc)]
                        /\ written' = written \cup {idx}
                   ELSE UNCHANGED <<vault, written>>
                /\ UNCHANGED <<pc, outcome, exit_code>>
    /\ UNCHANGED <<config, fetchvars, syncvars, vault0, error_logged>>

\* obsidian_auto_tagger.main, lines 138-144
AutoSummary ==
    /\ tool = "auto"
    /\ pc = "files"
    /\ idx \notin Files
    /\ Return(0)
    /\ UNCHANGED <<config, fetchvars, syncvars, vault, vault0, error_logged,
                   idx, written, new_log>>

\* readwise_tag_sync.main, lines 181-190
SyncCheckToken ==
    /\ tool = "sync"
    /\ pc = "start"
    /\ IF TokenAbsent(get_env_token(token))
       THEN /\ error_logged' = TRUE
            /\ Return(1)
            /\ UNCHANGED page
       ELSE /\ pc' = "fetch"
            /\ page' = 1
            /\ UNCHANGED <<error_logged, outcome, exit_code>>
    /\ UNCHANGED <<config, syncvars, vault, vault0, idx, written, new_log,
                   requests, response, fetched, readwise_tags>>

\* fetch_readwise_tags, lines 71-81: a page request that is answered with
\* a 2xx status; after the last page main goes on to line 206
FetchPage ==
    /\ tool = "sync"
    /\ pc = "fetch"
    /\ page \in DOMAIN service
    /\ requests' = requests + 1
    /\ response' = "ok"
    /\ fetched' = fetched \o PageNames(service[page])
    /\ IF page < Len(service)
       THEN /\ page' = page + 1
            /\ UNCHANGED <<pc, readwise_tags>>
       ELSE /\ page' = 0
            /\ readwise_tags' = Sorted(Range(fetched'))
            /\ pc' = "files"
    /\ UNCHANGED <<config, syncvars, vault, vault0, idx, written, new_log,
                   error_logged, outcome, exit_code>>

\* a page request answered with an error status: raise_for_status raises
\* requests.HTTPError, which main catches (lines 193-204)
FetchHttpError ==
    /\ tool = "sync"
    /\ pc = "fetch"
    /\ page \in DOMAIN service
    /\ requests' = requests + 1
    /\ \E status \in {"http401", "http500"} : response' = status
    /\ error_logged' = TRUE
    /\ Return(1)
    /\ UNCHANGED <<config, syncvars, vault, vault0, idx, written, new_log,
                   page, fetched, readwise_tags>>

\* a page request that meets no answer: requests.get raises ConnectionError
\* or Timeout, neither of which is a requests.HTTPError, so the except
\* clause of line 193 does not apply and the exception leaves main
FetchTransportError ==
    /\ tool = "sync"
    /\ pc = "fetch"
    /\ page \in DOMAIN service
    /\ requests' = requests + 1
    /\ \E kind \in {"connection", "timeout"} : response' = kind
    /\ Raise
    /\ UNCHANGED <<config, syncvars, vault, vault0, idx, written, new_log,
                   page, fetched, readwise_tags, error_logged>>

\* readwise_tag_sync.main, lines 213-241: one pass of the loop
SyncFile ==
    /\ tool = "sync"
    /\ pc = "files"
    /\ idx \in Files
    /\ \E sc \in {SyncScan(idx, vault[idx], readwise_tags,
                          similarity_threshold(cfg_threshold))} :
           IF sc.raised
           THEN /\ Raise
                /\ UNCHANGED <<vault, written, proposals, idx>>
           ELSE /\ idx' = idx + 1
                /\ proposals' = proposals \o sc.built.proposals
                /\ IF sc.built.proposals # <<>> /\ apply_changes
                   THEN /\ vault' = [vault EXCEPT ![idx] = SyncRewrite(sc)]
                        /\ written' = written \cup {idx}
                   ELSE UNCHANGED <<vault, written>>
                /\ UNCHANGED <<pc, outcome, exit_code>>
    /\ UNCHANGED <<config, fetchvars, csv, csv_writes, vault0, error_logged,
                   new_log>>

\* readwise_tag_sync.main, lines 243-253, with write_proposals
SyncWriteReport ==
    /\ tool = "sync"
    /\ pc = "files"
    /\ idx \notin Files
    /\ csv' = [i \in DOMAIN proposals |-> CsvRow(proposals[i])]
    /\ csv_writes' = csv_writes + 1
    /\ Return(0)
    /\ UNCHANGED <<config, fetchvars, proposals, vault, vault0, error_logged,
                   idx, written, new_log>>

\* the tool is invoked again, with the same flags and configuration, on the
\* vault the run before left
Rerun ==
    /\ pc = "done"
    /\ outcome = "returned"
    /\ exit_code = 0
    /\ run < MaxRuns
    /\ run' = run + 1
    /\ vault0' = vault
    /\ pc' = "start"
    /\ outcome' = "running"
    /\ exit_code' = -1
    /\ error_logged' = FALSE
    /\ idx' = 1
    /\ page' = 0
    /\ requests' = 0
    /\ response' = "none"
    /\ fetched' = <<>>
    /\ readwise_tags' = <<>>
    /\ proposals' = <<>>
    /\ csv' = <<>>
    /\ csv_writes' = 0
    /\ written' = {}
    /\ new_log' = [i \in Files |-> <<>>]
    /\ UNCHANGED <<tool, apply, dry_run, token, cfg_threshold, raw_rules,
                   service, vault, fn_in, fn_out>>

Next ==
    \/ AutoLoadRules
    \/ AutoFile
    \/ AutoSummary
    \/ SyncCheckToken
    \/ FetchPage
    \/ FetchHttpError
    \/ FetchTransportError
    \/ SyncFile
    \/ SyncWriteReport
    \/ Rerun

Spec == Init /\ [][Next]_vars

----------------------------------------------------------------------------
(* The helpers applied on their own *)

\* no tool runs: the variables of the runs stay as they are
Idle ==
    /\ tool = "none"
    /\ apply = FALSE
    /\ dry_run = FALSE
    /\ token = NoToken
    /\ cfg_threshold = NoThreshold
    /\ raw_rules = NoRules
    /\ service = <<>>
    /\ vault = <<>>
    /\ vault0 = <<>>
    /\ run = 1
    /\ outcome = "running"
    /\ exit_code = -1
    /\ error_logged = FALSE
    /\ idx = 1
    /\ page = 0
    /\ requests = 0
    /\ response = "none"
    /\ fetched = <<>>
    /\ readwise_tags = <<>>
    /\ proposals = <<>>
    /\ csv = <<>>
    /\ csv_writes = 0
    /\ written = {}
    /\ new_log = <<>>

MaxLines == 6
MaxText == 4
MaxTags == 2

\* every sequence of at most n elements of S
SeqsUpTo(S, n) == UNION {[1..k -> S] : k \in 0..n}

(* parse_frontmatter, then write_markdown of what was parsed, then          *)
(* parse_frontmatter of what was written                                    *)

RTLines == {Dashes, <<>>, <<"#", "c">>, <<"a", ":", " ", "1">>, <<"b">>}

RTContents == {Lines(ls) : ls \in SeqsUpTo(RTLines, MaxLines) \ {<<>>}}

NotParsed == [raised |-> FALSE, fm |-> <<>>, body |-> <<>>, found |-> FALSE]

InitRoundTrip ==
    /\ Idle
    /\ pc = "parse"
    /\ fn_in \in RTContents
    /\ fn_out = [parsed |-> NotParsed, text |-> <<>>, reparsed |-> NotParsed]

\* parse_frontmatter(content)
RTParse ==
    /\ pc = "parse"
    /\ \E p \in {parse_frontmatter(fn_in)} :
        /\ fn_out' = [fn_out EXCEPT !.parsed = p]
        /\ pc' = IF p.raised THEN "raised" ELSE "compose"
    /\ UNCHANGED <<runvars, fn_in>>

\* write_markdown(path, frontmatter, body): the text written
RTCompose ==
    /\ pc = "compose"
    /\ fn_out' = [fn_out EXCEPT
                    !.text = compose_markdown(fn_out.parsed.fm,
                                              fn_out.parsed.body)]
    /\ pc' = "reparse"
    /\ UNCHANGED <<runvars, fn_in>>

\* parse_frontmatter of the text written
RTReparse ==
    /\ pc = "reparse"
    /\ fn_out' = [fn_out EXCEPT !.reparsed = parse_frontmatter(fn_out.text)]
    /\ pc' = "reparsed"
    /\ UNCHANGED <<runvars, fn_in>>

NextRoundTrip == RTParse \/ RTCompose \/ RTReparse

SpecRoundTrip == InitRoundTrip /\ [][NextRoundTrip]_vars

(* replace_tag_in_text *)

RepChars == {"#", "f", "-", "/", " "}

InitReplace ==
    /\ Idle
    /\ pc = "replace"
    /\ fn_in \in [text : SeqsUpTo(RepChars, MaxText),
                  old : {<<"f">>, <<"f", "f">>, <<"f", "-">>},
                  new : {<<"g">>, <<"f">>}]
    /\ fn_out = <<>>

Replace ==
    /\ pc = "replace"
    /\ fn_out' = replace_tag_in_text(fn_in.text, fn_in.old, fn_in.new)
    /\ pc' = "replaced"
    /\ UNCHANGED <<runvars, fn_in>>

NextReplace == Replace

SpecReplace == InitReplace /\ [][NextReplace]_vars

(* build_proposals *)

PTags == {<<"f", "o">>, Foo, Fod, Bar}

\* sorted(set(...)) of at most n of the elements of S
SortedSubsets(S, n) == {Sorted(T) : T \in {U \in SUBSET S : Cardinality(U) <= n}}

InitProposals ==
    /\ Idle
    /\ pc = "build"
    /\ fn_in \in [frontmatter_tags : SeqsUpTo(PTags, MaxTags),
                  body_tags : SortedSubsets(PTags, MaxTags),
                  readwise : SortedSubsets({Foo, Food, Bar}, 3),
                  threshold : {0, 50, 80, 100}]
    /\ fn_out = [proposals |-> <<>>, frontmatter_updates |-> <<>>,
                 body_updates |-> <<>>]

BuildProposals ==
    /\ pc = "build"
    /\ fn_out' = build_proposals(1, fn_in.frontmatter_tags, fn_in.body_tags,
                                 fn_in.readwise, fn_in.threshold)
    /\ pc' = "built"
    /\ UNCHANGED <<runvars, fn_in>>

NextProposals == BuildProposals

SpecProposals == InitProposals /\ [][NextProposals]_vars

----------------------------------------------------------------------------
(* Properties of the runs *)

Done == pc = "done"

\* the run got past the credential and the fetch
PassedFetch == tool = "sync" /\ requests > 0 /\ response = "ok" /\ page = 0

\* the run got to the loop over the files
EnteredLoop ==
    \/ tool = "auto" /\ load_rules(raw_rules) # <<>>
    \/ PassedFetch

\* file i, as the run found it, has a new tag (auto-tagger) or a proposal
\* (sync tool)
HasNew(i) ==
    \/ /\ tool = "auto"
       /\ LET sc == AutoScan(vault0[i], load_rules(raw_rules))
          IN  ~sc.raised /\ sc.new_tags # <<>>
    \/ /\ PassedFetch
       /\ LET sc == SyncScan(i, vault0[i], readwise_tags,
                             similarity_threshold(cfg_threshold))
          IN  ~sc.raised /\ sc.built.proposals # <<>>

\* the rows of the proposals of files i..NFiles, as the run found the files
RECURSIVE RowsFrom(_)
RowsFrom(i) ==
    IF i > NFiles THEN <<>>
    ELSE LET sc == SyncScan(i, vault0[i], readwise_tags,
                            similarity_threshold(cfg_threshold))
             rows == IF sc.raised THEN <<>>
                     ELSE [k \in DOMAIN sc.built.proposals |->
                              CsvRow(sc.built.proposals[k])]
         IN  rows \o RowsFrom(i + 1)

\* C1: in both tools a file is written if and only if the run is in apply
\* mode, not in dry-run mode, and the file has at least one new tag or
\* proposal: no file is written otherwise, and when the run has ended
\* every such file has been written.
C1_WrittenIffApplyAndNew ==
    \A i \in Files :
        /\ i \in written => apply /\ ~dry_run /\ HasNew(i)
        /\ Done /\ apply /\ ~dry_run /\ HasNew(i) => i \in written

\* C2: when the READWISE_TOKEN variable is unset the sync tool requests
\* nothing, writes no report and no file, and ends by returning 1 after
\* logging the error.
C2_NoTokenNoWork ==
    tool = "sync" /\ ~token.set =>
        /\ pc \in {"start", "done"}
        /\ requests = 0
        /\ response = "none"
        /\ csv_writes = 0
        /\ written = {}
        /\ vault = vault0
        /\ Done => outcome = "returned" /\ exit_code = 1 /\ error_logged

\* a run in apply mode on a file with proposable tags, ended for want of
\* the token
C2_Reached ==
    /\ tool = "sync"
    /\ ~token.set
    /\ Done
    /\ apply /\ ~dry_run
    /\ vault0[1] = SyncStringTags

\* C3: whatever the failure of a request to the service (401, another
\* error status, no connection, a timeout), the sync tool logs an error
\* and returns 1, with no file and no report written.
C3_FetchFailureHandled ==
    response \in {"http401", "http500", "connection", "timeout"} =>
        /\ Done
        /\ outcome = "returned"
        /\ exit_code = 1
        /\ error_logged
        /\ written = {}
        /\ csv_writes = 0
        /\ vault = vault0

\* C4: a run of the auto-tagger in apply mode on the vault an earlier such
\* run left, with the same rules, finds no new tag and writes no file.
C4_SecondRunAddsNothing ==
    tool = "auto" /\ apply /\ ~dry_run /\ run > 1 =>
        /\ written = {}
        /\ \A i \in Files : new_log[i] = <<>>

\* C7: a run of the sync tool that got past the credential and the fetch
\* writes the report once, after the last file, with one row for each
\* proposal of each file, whatever the mode.
C7_ReportOncePerRun ==
    /\ tool = "sync" => csv_writes <= 1
    /\ csv_writes = 1 => Done /\ idx = NFiles + 1
    /\ Done /\ PassedFetch => csv_writes = 1 /\ csv = RowsFrom(1)

\* C8: a run that got to the loop over the files goes through all of them
\* and returns 0, whatever their frontmatter.
C8_FilesIsolated ==
    Done /\ EnteredLoop =>
        /\ outcome = "returned"
        /\ exit_code = 0
        /\ idx = NFiles + 1

\* C10: no run of the sync tool ends with a file written and the report
\* not written, or without a row of the report for a written file.
C10_WrittenFilesReported ==
    tool = "sync" /\ Done /\ written # {} =>
        /\ csv_writes = 1
        /\ \A i \in written : \E k \in DOMAIN csv : csv[k].file = i

----------------------------------------------------------------------------
(* Properties of the helpers *)

\* a and b without their leading newlines are the same text
RECURSIVE DropNewlines(_)
DropNewlines(text) ==
    IF text # <<>> /\ Head(text) = NL THEN DropNewlines(Tail(text)) ELSE text

\* C5: what parse_frontmatter reads from the text written for a parsed
\* note is the frontmatter and, up to leading newlines, the body that were
\* parsed from the note.
C5_RoundTrip ==
    pc = "reparsed" =>
        /\ ~fn_out.reparsed.raised
        /\ fn_out.reparsed.fm = fn_out.parsed.fm
        /\ DropNewlines(fn_out.reparsed.body) = DropNewlines(fn_out.parsed.body)

\* the text with "#" + new for every tag token equal to old, the tag
\* tokens being those find_tags_in_text reads from position i on
RECURSIVE TokensReplacedFrom(_, _, _, _)
TokensReplacedFrom(text, i, old, new) ==
    IF i > Len(text) THEN <<>>
    ELSE IF TagStartAt(text, i)
    THEN LET e == TagRunEnd(text, i + 1)
             tag == SubSeq(text, i + 1, e - 1)
         IN  <<"#">> \o (IF tag = old THEN new ELSE tag)
                     \o TokensReplacedFrom(text, e, old, new)
    ELSE <<text[i]>> \o TokensReplacedFrom(text, i + 1, old, new)

\* C6: replace_tag_in_text replaces the tag tokens equal to the old tag,
\* as find_tags_in_text reads them, and leaves every other token and all
\* other text as it was.
C6_ReplacesWholeTokensOnly ==
    pc = "replaced" =>
        fn_out = TokensReplacedFrom(fn_in.text, 1, fn_in.old, fn_in.new)

\* candidate k of the vocabulary is the best match of the tag: none scores
\* higher and none before it scores as high
IsBest(tag, readwise, k) ==
    /\ \A j \in DOMAIN readwise :
          Ratio(tag, readwise[j]).num * Ratio(tag, readwise[k]).den
            <= Ratio(tag, readwise[k]).num * Ratio(tag, readwise[j]).den
    /\ \A j \in 1..(k - 1) :
          Ratio(tag, readwise[j]).num * Ratio(tag, readwise[k]).den
            < Ratio(tag, readwise[k]).num * Ratio(tag, readwise[j]).den

\* the vocabulary has a best match for the tag that differs from it and
\* scores at least the threshold
Proposable(tag, readwise, threshold) ==
    \E k \in DOMAIN readwise :
        /\ IsBest(tag, readwise, k)
        /\ readwise[k] # tag
        /\ Ratio(tag, readwise[k]).num >= threshold * Ratio(tag, readwise[k]).den

\* the proposals of build_proposals for a tag at a location
ProposalsFor(location, tag) ==
    {k \in DOMAIN fn_out.proposals :
        /\ fn_out.proposals[k].location = location
        /\ fn_out.proposals[k].original = tag}

\* C9: build_proposals makes a proposal for a tag of a location if and
\* only if the vocabulary is not empty, the best match differs from the
\* tag and its score is at least the threshold; it makes at most one
\* proposal for a tag at a location, and the proposal names the best
\* match.
C9_ProposalIffBestMatchQualifies ==
    pc = "built" =>
        /\ \A k \in DOMAIN fn_out.proposals :
              LET p == fn_out.proposals[k]
              IN  /\ p.location \in {"frontmatter", "body"}
                  /\ p.original \in
                        Range(IF p.location = "frontmatter"
                              THEN fn_in.frontmatter_tags
                              ELSE fn_in.body_tags)
                  /\ \E j \in DOMAIN fn_in.readwise :
                        /\ IsBest(p.original, fn_in.readwise, j)
                        /\ p.suggested = fn_in.readwise[j]
                        /\ p.score = Ratio(p.original, fn_in.readwise[j])
        /\ \A tag \in Range(fn_in.frontmatter_tags) :
              Cardinality(ProposalsFor("frontmatter", tag)) =
                 IF Proposable(tag, fn_in.readwise, fn_in.threshold)
                 THEN 1 ELSE 0
        /\ \A tag \in Range(fn_in.body_tags) :
              Cardinality(ProposalsFor("body", tag)) =
                 IF Proposable(tag, fn_in.readwise, fn_in.threshold)
                 THEN 1 ELSE 0

\* a tag that occurs twice in the frontmatter and scores exactly the
\* threshold against its best match, next to a tag with no proposal
C9_Reached ==
    /\ pc = "built"
    /\ fn_in.frontmatter_tags = <<<<"f", "o">>, <<"f", "o">>>>
    /\ fn_in.body_tags = <<Bar, Foo>>
    /\ fn_in.readwise = <<Foo, Food>>
    /\ fn_in.threshold = 80
    /\ Len(fn_out.proposals) = 1
    /\ fn_out.proposals[1].suggested = Foo

====
